---- MODULE Spec2Model ----
(***************************************************************************)
(* A model of ionize's Ion class (ionize/Ion/__init__.py) and of its       *)
(* ionization_fraction method (ionize/Ion/ionization_fraction.py).         *)
(*                                                                         *)
(* Python values are modelled as tagged records [tag, v]: a number is      *)
(* Num(n), a list is List(s), a string is Str(s), None is NoneV, a bound   *)
(* method is Method, and an attribute missing from the instance and the    *)
(* class is Absent.  A float is modelled by its sign bit and magnitude     *)
(* [neg, mag], because copysign reads the sign bit (0.0 and -0.0 differ).  *)
(* Only the branch T == T_ref of __init__ is modelled (default arguments). *)
(***************************************************************************)
EXTENDS Integers, Sequences, FiniteSets, TLC

VARIABLES caller, heap, last

vars == <<caller, heap, last>>

\* ---------------------------------------------------------------- bounds
MaxLen == 2
MaxNeg == 1
MaxZ == 3
MaxIons == 2
MaxCtx == 1

\* ------------------------------------------------------- program constants
T_default == 25

\* ---------------------------------------------------------- Python values
NoneV == [tag |-> "None", v |-> <<>>]
Absent == [tag |-> "absent", v |-> <<>>]
Method == [tag |-> "method", v |-> <<>>]
Num(n) == [tag |-> "num", v |-> <<n>>]
Str(s) == [tag |-> "str", v |-> <<s>>]
List(s) == [tag |-> "list", v |-> s]

NoExc == "no exception"

\* bool(x) as Python computes it for the values above.
Truthy(x) ==
  CASE x.tag = "num" -> x.v[1] # 0
    [] x.tag = "list" -> Len(x.v) > 0
    [] x.tag = "str" -> TRUE
    [] x.tag = "method" -> TRUE
    [] OTHER -> FALSE

\* ------------------------------------------------------------ input sets
ZVals == (0 - MaxNeg)..MaxZ
PKaVals == {-2, 5}
\* Mobilities: 0.0, and one magnitude with either sign.
MobVals == {[neg |-> FALSE, mag |-> 0], [neg |-> FALSE, mag |-> 1],
            [neg |-> TRUE, mag |-> 1]}
Ids == 1..MaxIons
CtxVals == {NoneV} \cup {Num(n) : n \in 0..MaxCtx}

SeqsUpTo(S) == UNION {[1..n -> S] : n \in 0..MaxLen}

\* The arguments of a call Ion(name, z, pKa_ref, absolute_mobility_ref).
\* zIsInt tells whether the elements of z are instances of int (as opposed
\* to floats of the same value, such as 1.0).  A scalar argument x is the
\* one-element sequence <<x>>: lines 42-55 wrap it.
IntArgs ==
  [name : {"hydrochloric acid"}, z : SeqsUpTo(ZVals), zIsInt : {TRUE},
   pKa_ref : SeqsUpTo(PKaVals), absolute_mobility_ref : SeqsUpTo(MobVals)]

\* The call of the module's __main__ block, in the model's units.
HclArgs ==
  [name |-> "hydrochloric acid", z |-> <<-1>>, zIsInt |-> TRUE,
   pKa_ref |-> <<-2>>, absolute_mobility_ref |-> <<[neg |-> TRUE, mag |-> 1]>>]

\* The same call with the charge given as the float -1.0.
FloatZArgs == [HclArgs EXCEPT !.zIsInt = FALSE]

AllArgs == IntArgs \cup {FloatZArgs}

\* --------------------------------------------------------------- helpers
Abs(n) == IF n < 0 THEN 0 - n ELSE n

\* math.copysign(z, m) for an int z and a float m, as a number.
copysign_zm(z, m) == IF m.neg THEN 0 - Abs(z) ELSE Abs(z)

\* math.copysign(m, z) for a float m and an int z.
copysign_mz(m, z) == [neg |-> z < 0, mag |-> m.mag]

\* The number a float stands for (-0.0 == 0.0).
FloatVal(m) == IF m.neg THEN 0 - m.mag ELSE m.mag

\* Python's < on the tuples (z, pKa, absolute_mobility).
TupleLess(a, b) ==
  \/ a[1] < b[1]
  \/ a[1] = b[1] /\ a[2] < b[2]
  \/ a[1] = b[1] /\ a[2] = b[2] /\ FloatVal(a[3]) < FloatVal(b[3])

\* zip(z, pKa, absolute_mobility): as long as the shortest argument.
Min2(a, b) == IF a < b THEN a ELSE b
zip3(a, b, c) ==
  [i \in 1..Min2(Len(a), Min2(Len(b), Len(c))) |-> <<a[i], b[i], c[i]>>]

\* sorted(): stable, by insertion after the elements that are not greater.
RECURSIVE InsertSorted(_, _)
InsertSorted(t, s) ==
  IF s = <<>> THEN <<t>>
  ELSE IF TupleLess(t, s[Len(s)])
       THEN Append(InsertSorted(t, SubSeq(s, 1, Len(s) - 1)), s[Len(s)])
       ELSE Append(s, t)

RECURSIVE sorted(_)
sorted(s) ==
  IF s = <<>> THEN <<>>
  ELSE InsertSorted(s[Len(s)], sorted(SubSeq(s, 1, Len(s) - 1)))

Range(s) == {s[i] : i \in DOMAIN s}
MinOf(S) == CHOOSE m \in S : \A x \in S : m <= x
MaxOf(S) == CHOOSE m \in S : \A x \in S : x <= m

\* set(range(min(z), max(z)+1, 1)) - {0}
full(z) == (MinOf(Range(z))..MaxOf(Range(z))) \ {0}

\* ---------------------------------------------- predicates on arguments
Lengths(a) == <<Len(a.z), Len(a.pKa_ref), Len(a.absolute_mobility_ref)>>
LengthMismatch(a) ==
  Len(a.pKa_ref) # Len(a.z) \/ Len(a.absolute_mobility_ref) # Len(a.z)

\* Some nonzero integer between min(z) and max(z) is no charge state of z.
Skips(z) ==
  /\ z # <<>>
  /\ \E k \in MinOf(Range(z))..MaxOf(Range(z)) : k # 0 /\ k \notin Range(z)

\* Arguments that are well formed apart from the signs of the mobilities.
WellFormed(a) ==
  /\ a.zIsInt
  /\ ~LengthMismatch(a)
  /\ a.z # <<>>
  /\ 0 \notin Range(a.z)
  /\ ~Skips(a.z)

\* Some mobility has the sign bit opposite to the sign of its charge.
Opposite(a) ==
  \E i \in DOMAIN a.z : a.absolute_mobility_ref[i].neg # (a.z[i] < 0)

Raise(obj, exc) == [raised |-> exc, obj |-> obj]
Return(obj) == [raised |-> NoExc, obj |-> obj]

\* --------------------------------------------------------------- Ion.z_sort
\* Each list sorted on its own: the pairing of a charge with its pKa and
\* mobility is lost.
z_sort_unpaired(obj) ==
  IF obj.z.v = <<>> THEN Raise(obj, "ValueError")
  ELSE LET zs == sorted([i \in DOMAIN obj.z.v |->
                           <<obj.z.v[i], 0, [neg |-> FALSE, mag |-> 0]>>])
           ps == sorted([i \in DOMAIN obj.pKa.v |->
                           <<0, obj.pKa.v[i], [neg |-> FALSE, mag |-> 0]>>])
           ms == sorted([i \in DOMAIN obj.absolute_mobility.v |->
                           <<0, 0, obj.absolute_mobility.v[i]>>])
           o2 == [obj EXCEPT !.z = List([i \in DOMAIN zs |-> zs[i][1]]),
                             !.pKa = List([i \in DOMAIN ps |-> ps[i][2]]),
                             !.absolute_mobility =
                                List([i \in DOMAIN ms |-> ms[i][3]])]
       IN IF Range(o2.z.v) = full(o2.z.v) THEN Return(o2)
          ELSE Raise(o2, "AssertionError")

\* The ladder is not checked after sorting.
z_sort_unchecked(obj) ==
  LET t == sorted(zip3(obj.z.v, obj.pKa.v, obj.absolute_mobility.v)) IN
  IF t = <<>> THEN Raise(obj, "ValueError")
  ELSE Return([obj EXCEPT !.z = List([i \in DOMAIN t |-> t[i][1]]),
                          !.pKa = List([i \in DOMAIN t |-> t[i][2]]),
                          !.absolute_mobility =
                             List([i \in DOMAIN t |-> t[i][3]])])

\* zip(*sorted(zip(...))) of no tuples unpacks nothing into three names:
\* ValueError.  Otherwise the three lists are rebound, sorted together, and
\* the ladder is compared, as a set, with the full range without 0.
z_sort(obj) ==
  LET t == sorted(zip3(obj.z.v, obj.pKa.v, obj.absolute_mobility.v)) IN
  IF t = <<>> THEN Raise(obj, "ValueError")
  ELSE LET o2 == [obj EXCEPT !.z = List([i \in DOMAIN t |-> t[i][1]]),
                             !.pKa = List([i \in DOMAIN t |-> t[i][2]]),
                             !.absolute_mobility =
                                List([i \in DOMAIN t |-> t[i][3]])]
       IN IF Range(o2.z.v) = full(o2.z.v) THEN Return(o2)
          ELSE Raise(o2, "AssertionError")

\* ------------------------------------------------------------ Ion.__init__
\* The instance after lines 38-68 with T == T_ref: pKa and absolute_mobility
\* are the reference lists; _pH and _I are set nowhere in the class.
NewIon(args) ==
  [name |-> Str(args.name), T |-> Num(T_default), _T_ref |-> Num(T_default),
   z |-> List(args.z),
   _pKa_ref |-> List(args.pKa_ref),
   _absolute_mobility_ref |-> List(args.absolute_mobility_ref),
   pKa |-> List(args.pKa_ref),
   absolute_mobility |-> List(args.absolute_mobility_ref),
   actual_mobility |-> NoneV, _pH |-> Absent, _I |-> Absent]

\* not all([copysign(z, m) == z for z, m in zip(z, absolute_mobility)])
SignMismatch(z, mob) ==
  \E i \in DOMAIN z : copysign_zm(z[i], mob[i]) # z[i]

\* The signs are tested but never forced.
ForceSigns_off(obj) == [obj |-> obj, warned |-> FALSE]

\* Lines 81-85: when some sign differs every mobility is rebuilt with the
\* sign of its charge, and one warning is emitted.
ForceSigns(obj) ==
  IF SignMismatch(obj.z.v, obj.absolute_mobility.v)
  THEN [obj |-> [obj EXCEPT !.absolute_mobility =
                   List([i \in DOMAIN obj.z.v |->
                           copysign_mz(obj.absolute_mobility.v[i], obj.z.v[i])])],
        warned |-> TRUE]
  ELSE [obj |-> obj, warned |-> FALSE]

\* The outcome of Ion(name, z, pKa_ref, absolute_mobility_ref): the exception
\* raised (NoExc when the object is produced), the object, whether the
\* warning was emitted, and the caller's sequences after the call (the
\* constructor copies them at lines 43-55 and never writes to them).
Ion_init(args) ==
  LET o == NewIon(args) IN
  IF ~args.zIsInt
  THEN [raised |-> "AssertionError", obj |-> o, warned |-> FALSE, args |-> args]
  ELSE IF Len(o.pKa.v) # Len(o.z.v)
  THEN [raised |-> "AssertionError", obj |-> o, warned |-> FALSE, args |-> args]
  ELSE IF Len(o.absolute_mobility.v) # Len(o.z.v)
  THEN [raised |-> "AssertionError", obj |-> o, warned |-> FALSE, args |-> args]
  ELSE LET f == ForceSigns(o)
           s == z_sort(f.obj)
       IN [raised |-> s.raised, obj |-> s.obj, warned |-> f.warned,
           args |-> args]

\* ------------------------------------------------------------------ state
Free == [tag |-> "free"]
Allocated == {i \in Ids : heap[i] # Free}

NoCall == [op |-> "none", id |-> 0, arg |-> <<>>, raised |-> NoExc,
           value |-> NoneV, warned |-> FALSE, used |-> <<>>]

\* x = Ion(...) by the caller: on success the new object takes the lowest
\* free identity; on an exception no object exists.
Construct ==
  /\ \E i \in Ids : heap[i] = Free
  /\ LET id == CHOOSE i \in Ids : heap[i] = Free /\ \A j \in Ids : j < i => heap[j] # Free
         r == Ion_init(caller)
     IN /\ heap' = IF r.raised = NoExc THEN [heap EXCEPT ![id] = r.obj] ELSE heap
        /\ last' = [op |-> "Ion", id |-> IF r.raised = NoExc THEN id ELSE 0,
                    arg |-> caller, raised |-> r.raised, value |-> NoneV,
                    warned |-> r.warned, used |-> <<>>]
        /\ caller' = r.args

\* ------------------------------------------------- attributes and equality
StateProps == {"name", "z", "pKa", "absolute_mobility"}
CtxProps == {"_pH", "_I"}

\* The values assigned to an attribute when Ions are compared: None to a
\* state property (as tests.py does at line 138), a nonzero number to the
\* stored context.
AttrVals(prop) ==
  IF prop \in CtxProps THEN {Num(n) : n \in 1..MaxCtx} ELSE {NoneV}

Bool(b) == [tag |-> "bool", v |-> <<b>>]

\* setattr(ion, prop, val).  class Ion(object) defines no __setattr__, no
\* __slots__ and no property: the instance attribute is rebound and nothing
\* is raised.
SetAttr(id, prop, val) ==
  /\ heap[id] # Free
  /\ heap' = [heap EXCEPT ![id][prop] = val]
  /\ last' = [op |-> "setattr", id |-> id, arg |-> <<prop, val>>,
              raised |-> NoExc, value |-> NoneV, warned |-> FALSE,
              used |-> <<>>]
  /\ UNCHANGED caller

\* a == b for two Ion instances.  The class defines neither __eq__ nor
\* __cmp__, so Python compares the instances by identity.
Ion_eq(a, b) == a = b

Compare(a, b) ==
  /\ heap[a] # Free
  /\ heap[b] # Free
  /\ last' = [op |-> "eq", id |-> a, arg |-> <<b>>, raised |-> NoExc,
              value |-> Bool(Ion_eq(a, b)), warned |-> FALSE, used |-> <<>>]
  /\ UNCHANGED <<caller, heap>>

\* ----------------------------------------------------- ionization_fraction
\* Ion.z0(): the charge states with 0 inserted, sorted.
z0(obj) ==
  LET s == sorted([i \in 1..(Len(obj.z.v) + 1) |->
                     <<IF i = 1 THEN 0 ELSE obj.z.v[i - 1], 0,
                       [neg |-> FALSE, mag |-> 0]>>])
  IN [i \in DOMAIN s |-> s[i][1]]

\* The attribute obj.z0, read without calling it: z0 is a plain method of
\* the class (def z0(obj), no property), so the read yields a bound method.
getattr_z0(obj) == Method

\* obj.L(I): the products of acidity constants, one for each state of z0,
\* kept symbolic (the state and the ionic strength it was computed for).
L(obj, I) == [i \in DOMAIN z0(obj) |-> [z |-> z0(obj)[i], I |-> I]]

\* obj.activity_coefficient(I, [1])[0], kept symbolic.
activity_coefficient(obj, I) == [gamma |-> 1, I |-> I]

FracOutcome(exc, val, pH, I, obj) ==
  [raised |-> exc, value |-> val, used |-> <<pH, I>>, obj |-> obj]

\* Lines 25-38, from the resolved pH and I on.  zip(L, obj.z0) iterates its
\* second argument: a value that is no list raises TypeError.
fractions(obj, pH, I) ==
  LET Lv == L(obj, I)
      cH == [pH |-> pH, gamma |-> activity_coefficient(obj, I)]
      zs == getattr_z0(obj)
  IN IF zs.tag # "list"
     THEN FracOutcome("TypeError", NoneV, pH, I, obj)
     ELSE LET n == Min2(Len(Lv), Len(zs.v))
              nz == SelectSeq([i \in 1..n |-> i], LAMBDA i : zs.v[i] # 0)
          IN FracOutcome(NoExc,
               List([k \in DOMAIN nz |->
                       [num |-> <<Lv[nz[k]], cH, zs.v[nz[k]]>>,
                        den |-> [i \in 1..n |-> <<Lv[i], cH, zs.v[i]>>]]]),
               pH, I, obj)

\* Lines 19-23: the ionic strength the computation uses.
resolve_I(obj, pH, I) ==
  IF I = NoneV
  THEN IF obj._I = Absent
       THEN FracOutcome("AttributeError", NoneV, pH, I, obj)
       ELSE IF Truthy(obj._I) THEN fractions(obj, pH, obj._I)
            ELSE fractions(obj, pH, Num(0))
  ELSE fractions(obj, pH, I)

\* "if not I:" in place of "if I is None:": an explicit I of 0.0 is
\* replaced by the stored ionic strength.
ionization_fraction_falsy_I(obj, pH, I) ==
  IF pH = NoneV
  THEN IF obj._pH = Absent
       THEN FracOutcome("AttributeError", NoneV, pH, I, obj)
       ELSE IF ~Truthy(obj._pH)
            THEN FracOutcome("AssertionError", NoneV, pH, I, obj)
            ELSE resolve_I(obj, obj._pH, I)
  ELSE IF ~Truthy(I) THEN resolve_I(obj, pH, NoneV)
       ELSE resolve_I(obj, pH, I)

\* ionization_fraction(obj, pH=None, I=None): the exception raised or the
\* list returned, the (pH, I) the computation used, and the object after
\* the call.  An omitted argument is NoneV.
ionization_fraction(obj, pH, I) ==
  IF pH = NoneV
  THEN IF obj._pH = Absent
       THEN FracOutcome("AttributeError", NoneV, pH, I, obj)
       ELSE IF ~Truthy(obj._pH)
            THEN FracOutcome("AssertionError", NoneV, pH, I, obj)
            ELSE resolve_I(obj, obj._pH, I)
  ELSE resolve_I(obj, pH, I)

IonizationFraction(id, pH, I) ==
  /\ heap[id] # Free
  /\ LET r == ionization_fraction(heap[id], pH, I)
     IN /\ heap' = [heap EXCEPT ![id] = r.obj]
        /\ last' = [op |-> "ionization_fraction", id |-> id,
                    arg |-> <<pH, I>>, raised |-> r.raised,
                    value |-> r.value, warned |-> FALSE, used |-> r.used]
  /\ UNCHANGED caller

\* --------------------------------------------------------- specifications
\* Two Ions built from the arguments of the __main__ block, their
\* attributes reassigned, and the two compared.
Init ==
  /\ caller = HclArgs
  /\ heap = [i \in Ids |-> Free]
  /\ last = NoCall

Next ==
  \/ Construct
  \/ \E id \in Ids, prop \in StateProps \cup CtxProps :
       \E val \in AttrVals(prop) : SetAttr(id, prop, val)
  \/ \E a, b \in Ids : Compare(a, b)

Spec == Init /\ [][Next]_vars

\* One Ion is built, its stored context is set, and its ionization
\* fractions are asked for, with and without explicit pH and I.
FracArgs ==
  {a \in AllArgs :
     /\ WellFormed(a)
     /\ ~Opposite(a)
     /\ \A i \in DOMAIN a.z :
          /\ a.pKa_ref[i] = 5
          /\ a.absolute_mobility_ref[i].mag = 1
          /\ \A j \in DOMAIN a.z : i < j => a.z[i] < a.z[j]}

InitFrac ==
  /\ caller \in FracArgs
  /\ heap = [i \in Ids |-> Free]
  /\ last = NoCall

NextFrac ==
  \/ Allocated = {} /\ Construct
  \/ \E id \in Ids, prop \in CtxProps :
       \E val \in CtxVals : SetAttr(id, prop, val)
  \/ \E id \in Ids, pH \in CtxVals, I \in CtxVals :
       IonizationFraction(id, pH, I)

SpecFrac == InitFrac /\ [][NextFrac]_vars

InitCtor ==
  /\ caller \in AllArgs
  /\ heap = [i \in Ids |-> Free]
  /\ last = NoCall

NextCtor == Construct

SpecCtor == InitCtor /\ [][NextCtor]_vars

\* -------------------------------------------------------- constructor claims
BagOf(s) == [x \in Range(s) |-> Cardinality({i \in DOMAIN s : s[i] = x})]

\* The (z, pKa, |mobility|) triples of three sequences of one length.
MagTriples(z, p, m) == [i \in DOMAIN z |-> <<z[i], p[i], m[i].mag>>]
\* The (z, pKa, mobility) triples, sign bits included.
Triples(z, p, m) == [i \in DOMAIN z |-> <<z[i], p[i], m[i]>>]

Constructed == last.op = "Ion" /\ last.raised = NoExc

\* C1: a construction whose charge states skip a nonzero integer between
\* min(z) and max(z), or whose pKa or mobility vector is not as long as z,
\* raises during Ion(...) and produces no object.
C1_MalformedRejected ==
  (last.op = "Ion" /\ (Skips(last.arg.z) \/ LengthMismatch(last.arg)))
    => (last.raised # NoExc /\ last.id = 0 /\ Allocated = {})

C1_Witness ==
  /\ last.op = "Ion"
  /\ last.arg.z = <<1, 3>>
  /\ ~LengthMismatch(last.arg)
  /\ last.arg.zIsInt
  /\ last.raised = "AssertionError"

\* C2: every constructed Ion stores a strictly ascending ladder without 0
\* that is exactly the nonzero integers of [min(z), max(z)], whatever the
\* order of the input and also when the input repeats a charge state.
C2_LadderStrict ==
  Constructed =>
    LET z == heap[last.id].z.v IN
      /\ \A i, j \in DOMAIN z : i < j => z[i] < z[j]
      /\ 0 \notin Range(z)
      /\ Range(z) = full(z)

C7_OrderEnforced ==
  (last.op = "Ion" /\ \E i, j \in DOMAIN last.arg.z :
                         i < j /\ last.arg.z[i] > last.arg.z[j])
    => last.raised = "AssertionError"

\* C10: every constructed Ion (T == T_ref) stores, as (z, pKa, |mobility|)
\* triples, a permutation of the triples the caller's sequences form index
\* by index, and the caller's sequences are as they were before the call.
C10_PairingKept ==
  Constructed =>
    LET o == heap[last.id]
        a == last.arg
    IN /\ Lengths(a) = <<Len(o.z.v), Len(o.pKa.v), Len(o.absolute_mobility.v)>>
       /\ BagOf(MagTriples(o.z.v, o.pKa.v, o.absolute_mobility.v))
            = BagOf(MagTriples(a.z, a.pKa_ref, a.absolute_mobility_ref))
       /\ caller = a

C10_Witness ==
  /\ Constructed
  /\ last.arg.z = <<1, -1>>
  /\ last.arg.pKa_ref = <<-2, 5>>
  /\ heap[last.id].z.v = <<-1, 1>>
  /\ heap[last.id].pKa.v = <<5, -2>>

\* ----------------------------------------------------------- object claims
\* C4: reassigning a state property (name, z, pKa, absolute_mobility) of a
\* constructed Ion fails with AttributeError.
C4_Immutable ==
  (last.op = "setattr" /\ last.arg[1] \in StateProps)
    => last.raised = "AttributeError"

\* The state that decides equality: name, z, reference pKa and reference
\* mobility (dH and dCp are None on every Ion of this class).
SameState(x, y) ==
  /\ x.name = y.name
  /\ x.z = y.z
  /\ x._pKa_ref = y._pKa_ref
  /\ x._absolute_mobility_ref = y._absolute_mobility_ref

\* C5: a == b holds exactly when name, z, reference pKa and reference
\* mobility are equal, whatever context is stored on either Ion.
C5_Equality ==
  last.op = "eq" =>
    (last.value = Bool(SameState(heap[last.id], heap[last.arg[1]])))

Explicit ==
  /\ last.op = "ionization_fraction"
  /\ last.arg[1] # NoneV
  /\ last.arg[2] # NoneV

\* C6: with explicit pH and I, ionization_fraction returns a list with one
\* fraction for each nonzero charge state of the Ion.
C6_FractionPerState ==
  Explicit =>
    /\ last.raised = NoExc
    /\ last.value.tag = "list"
    /\ Len(last.value.v) = Len(heap[last.id].z.v)

ContextOf(obj, c1, c2) == [obj EXCEPT !._pH = c1, !._I = c2]

\* C8: with explicit pH and I (I = 0.0 included) the outcome of
\* ionization_fraction is the same for every stored context, the pH and I
\* the computation uses are the ones given, and the call leaves every
\* attribute of the Ion, its stored context included, as it was.
C8_ContextBypassed ==
  Explicit =>
    \A c1, c2 \in CtxVals \cup {Absent} :
      LET o == ContextOf(heap[last.id], c1, c2)
          r == ionization_fraction(o, last.arg[1], last.arg[2])
      IN /\ r.raised = last.raised
         /\ r.value = last.value
         /\ r.used = last.arg
         /\ last.used = last.arg
         /\ r.obj = o

C8_Witness ==
  /\ Explicit
  /\ last.arg = <<Num(1), Num(0)>>
  /\ heap[last.id]._pH = Num(0)
  /\ heap[last.id]._I = Num(1)
  /\ last.used = <<Num(1), Num(0)>>

\* C9: called without a pH on an Ion that stores a pH (0 included),
\* ionization_fraction has the outcome of the call with that pH given
\* explicitly.
C9_StoredPHUsed ==
  (/\ last.op = "ionization_fraction"
   /\ last.arg[1] = NoneV
   /\ heap[last.id]._pH.tag = "num")
    => LET r == ionization_fraction(heap[last.id], heap[last.id]._pH,
                                    last.arg[2])
       IN /\ last.raised = r.raised
          /\ last.value = r.value

\* C9: called without a pH on an Ion that stores none, ionization_fraction
\* fails with the assertion 'requires an input pH'.
C9_NoPHAsserts ==
  (/\ last.op = "ionization_fraction"
   /\ last.arg[1] = NoneV
   /\ heap[last.id]._pH.tag # "num")
    => last.raised = "AssertionError"
====
